---- MODULE Spec2Model ----
(***************************************************************************)
(* Session lifecycle and refresh-token rotation of the NestJS auth         *)
(* service: AuthService (auth.service.ts), JwtStrategy (jwt.strategy.ts)   *)
(* and UsersService (users.service.ts) over the User and Session tables.   *)
(*                                                                         *)
(* Every request is an async handler.  A handler is cut at the awaits      *)
(* that touch the store: the code between two store calls only works on    *)
(* the handler's own snapshot, so it is run together with the store call   *)
(* that follows it.  Procs are the requests in flight at the same time.    *)
(***************************************************************************)
EXTENDS Integers, Sequences, FiniteSets, TLC

\* ------------------------------------------------------------ bounds
MaxSessions == 3      \* Session rows the run may create
MaxUsers == 2         \* User rows the run may create
MaxTime == 3          \* last clock value
MaxVersion == 1       \* revokeAll calls per user
MaxRevokes == 2       \* revokeAll calls per user where they are counted

\* Request slots: the handlers that can be in flight at the same time.
Procs == {1, 2}

\* ------------------------------------------------------------ values
NoTime == -1          \* a null DateTime column
NoJti == 0            \* a null jti / no row
NoUser == 0

Emails == {"a@x", "A@x", "b@x"}
Password == "pw123456"
Passwords == {Password, "wrong"}

\* What a login request carries besides the credentials: LoginDto.platform
\* and deviceLabel, the user-agent header and the peer's ip.
Devices ==
  { [platform |-> "WEB", deviceLabel |-> "none", userAgent |-> "ua1", ip |-> "ip1"],
    [platform |-> "MOBILE", deviceLabel |-> "phone", userAgent |-> "ua2", ip |-> "ip2"] }

\* REFRESH_TOKEN_EXPIRES_IN, one unit of time being the configured duration
\* divided by RefreshTtl.
RefreshTtl == 2
\* ACCESS_TOKEN_EXPIRES_IN is configuration as well: shorter than the refresh
\* duration (the default, 15m against 7d) or longer.
AccessTtls == {1, 4}

VARIABLES
  users,      \* User table: sequence of rows, the row's id is its index
  sessions,   \* Session table: sequence of rows, the row's jti is its index
  now,        \* the clock (new Date())
  accessTtl,  \* configured ACCESS_TOKEN_EXPIRES_IN
  pc,         \* per request slot: where its handler stands
  frame,      \* per request slot: the handler's locals, or its response
              \* once it is done
  issued      \* by jti: the token pair returned for the session, and the
              \* session whose rotation created it (NoJti for a login)

vars == <<users, sessions, now, accessTtl, pc, frame, issued>>

\* ------------------------------------------------------------ Token Codec
Secret == "JWT_SECRET"
Header == "HS256.JWT"

\* Sign that stamps every token with the tokenVersion of a new account.
SignUnversioned(payload, ttl, t) ==
  [sub |-> payload.sub, tokenVersion |-> 0,
   jti |-> payload.jti, exp |-> t + ttl, sig |-> Secret]

\* jwtService.sign(payload, {expiresIn}): the payload, exp and the signature.
Sign(payload, ttl, t) ==
  [sub |-> payload.sub, tokenVersion |-> payload.tokenVersion,
   jti |-> payload.jti, exp |-> t + ttl, sig |-> Secret]

signAccess(payload, t) == Sign(payload, accessTtl, t)
signRefresh(payload, t) == Sign(payload, RefreshTtl, t)

\* A string that is no token of this service (malformed or wrong signature).
Garbage == [sub |-> NoUser, tokenVersion |-> 0, jti |-> NoJti, exp |-> 0, sig |-> "bad"]

\* jwtService.verify / passport-jwt with ignoreExpiration false: the signature
\* matches and the clock is before exp.
Verify(tok, t) == tok.sig = Secret /\ t < tok.exp

\* The compact token string, field by field in the order it is serialised:
\* header, then the payload {sub, tokenVersion, jti, iat, exp}, then signature.
TokenString(tok) == <<Header, tok.sub, tok.tokenVersion, tok.jti, tok.exp, tok.sig>>

\* bcrypt reads at most the first 72 bytes of its input.  The base64url header
\* and its dot are 37 characters, the 35 that follow encode the first 26 bytes
\* of the payload: {"sub":" and 18 characters of the user id.
BcryptInput(str) == SubSeq(str, 1, 2)

BcryptHash(str) == BcryptInput(str)
BcryptCompare(str, hash) == BcryptInput(str) = hash

\* ------------------------------------------------------------ stores
ToLowerCase(email) == IF email = "A@x" THEN "a@x" ELSE email

Jtis == 1..Len(sessions)
UserIds == 1..Len(users)

\* prisma.session.findUnique({where: {jti}})
FindSession(jti) == IF jti \in Jtis THEN jti ELSE NoJti

\* usersService.findById
findById(id) == IF id \in UserIds THEN id ELSE NoUser

\* findByEmail that looks the address up as it was typed.
findByEmailExact(email) ==
  LET hit == {u \in UserIds : users[u].email = email}
  IN IF hit = {} THEN NoUser ELSE CHOOSE u \in hit : TRUE

\* usersService.findByEmail
findByEmail(email) ==
  LET hit == {u \in UserIds : users[u].email = ToLowerCase(email)}
  IN IF hit = {} THEN NoUser ELSE CHOOSE u \in hit : TRUE

Idle == [op |-> "none"]

\* The stores are empty when the service is deployed.
Init ==
  /\ users = <<>>
  /\ sessions = <<>>
  /\ now = 0
  /\ accessTtl \in AccessTtls
  /\ pc = [p \in Procs |-> "idle"]
  /\ frame = [p \in Procs |-> Idle]
  /\ issued = <<>>

\* A slot is free before its first request and after each response.
SlotFree(p) == pc[p] \in {"idle", "done"}

\* A new request takes the lowest free slot (slots are interchangeable).
CanStart(p) == SlotFree(p) /\ \A q \in Procs : q < p => ~SlotFree(q)

\* The handler in slot p returns or throws r.
Finish(p, r) ==
  /\ pc' = [pc EXCEPT ![p] = "done"]
  /\ frame' = [frame EXCEPT ![p] = r]

\* The handler in slot p awaits its next store call.
Goto(p, label, f) ==
  /\ pc' = [pc EXCEPT ![p] = label]
  /\ frame' = [frame EXCEPT ![p] = f]

\* Rows that handlers in flight are about to insert.
PendingRows == Cardinality({q \in Procs : pc[q] \in {"loginCreate", "refreshRotate"}})
RoomForSession == Len(sessions) + PendingRows < MaxSessions

\* Every token string a client holds, and a string that is no token.
Presentable ==
  {issued[j].accessToken : j \in DOMAIN issued}
    \cup {issued[j].refreshToken : j \in DOMAIN issued} \cup {Garbage}

\* ------------------------------------------------------------ register
\* AuthService.register up to usersService.create
RegisterFind(p, email) ==
  /\ CanStart(p)
  /\ Len(users) < MaxUsers \/ findByEmail(email) # NoUser
  /\ IF findByEmail(email) # NoUser
       THEN Finish(p, [op |-> "register", status |-> "Conflict", email |-> email])
       ELSE Goto(p, "registerCreate", [op |-> "register", email |-> email])
  /\ UNCHANGED <<users, sessions, now, accessTtl, issued>>

\* usersService.create: the unique index on email rejects a second row.
RegisterCreate(p) ==
  /\ pc[p] = "registerCreate"
  /\ LET email == frame[p].email IN
     IF findByEmail(email) # NoUser \/ Len(users) >= MaxUsers
       THEN /\ Finish(p, [op |-> "register", status |-> "InternalError", email |-> email])
            /\ UNCHANGED users
       ELSE /\ users' = Append(users, [email |-> ToLowerCase(email),
                                       password |-> Password, tokenVersion |-> 0])
            /\ Finish(p, [op |-> "register", status |-> "OK", email |-> email])
  /\ UNCHANGED <<sessions, now, accessTtl, issued>>

\* ------------------------------------------------------------ login
\* No check throws.
Accept == [status |-> "OK", msg |-> ""]

\* LoginReject that tells an unknown address from a wrong password.
LoginRejectTelling(email, password) ==
  LET user == findByEmail(email) IN
  IF user = NoUser
    THEN [status |-> "Unauthorized", msg |-> "User not found"]
  ELSE IF users[user].password # password
    THEN [status |-> "Unauthorized", msg |-> "Invalid credentials"]
  ELSE Accept

\* The credential check of AuthService.login that throws, Accept when none
\* does: the user lookup, then bcrypt.compare on the password.
LoginReject(email, password) ==
  LET user == findByEmail(email) IN
  IF user = NoUser
    THEN [status |-> "Unauthorized", msg |-> "Invalid credentials"]
  ELSE IF users[user].password # password
    THEN [status |-> "Unauthorized", msg |-> "Invalid credentials"]
  ELSE Accept

\* AuthService.login: credentials check
LoginFind(p, email, password, meta) ==
  /\ CanStart(p)
  /\ RoomForSession
  /\ LET user == findByEmail(email)
         why == LoginReject(email, password) IN
     IF why # Accept
       THEN Finish(p, [op |-> "login", status |-> why.status, msg |-> why.msg])
       ELSE Goto(p, "loginCreate",
                 [op |-> "login", userId |-> user,
                  tokenVersion |-> users[user].tokenVersion,
                  meta |-> meta])
  /\ UNCHANGED <<users, sessions, now, accessTtl, issued>>

\* AuthService.login: mint the tokens, insert the chain root
LoginCreate(p) ==
  /\ pc[p] = "loginCreate"
  /\ LET f == frame[p]
         jti == Len(sessions) + 1
         payload == [sub |-> f.userId, tokenVersion |-> f.tokenVersion, jti |-> jti]
         refreshToken == signRefresh(payload, now)
         accessToken == signAccess(payload, now)
     IN /\ sessions' = Append(sessions,
              [userId |-> f.userId,
               refreshHash |-> BcryptHash(TokenString(refreshToken)),
               platform |-> f.meta.platform,
               deviceLabel |-> f.meta.deviceLabel,
               userAgent |-> f.meta.userAgent,
               ip |-> f.meta.ip,
               expiresAt |-> now + RefreshTtl,
               revokedAt |-> NoTime,
               replacedByJti |-> NoJti])
        /\ issued' = Append(issued, [accessToken |-> accessToken,
                                     refreshToken |-> refreshToken,
                                     rotatedFrom |-> NoJti])
        /\ Finish(p, [op |-> "login", status |-> "OK", jti |-> jti,
                      accessToken |-> accessToken, refreshToken |-> refreshToken,
                      user |-> f.userId])
  /\ UNCHANGED <<users, now, accessTtl>>

\* ------------------------------------------------------------ refresh
\* RefreshReject without reuse detection: a revoked session is not rejected.
RefreshRejectNoReuse(tok, t) ==
  IF ~Verify(tok, t) THEN "Invalid or expired refresh token"
  ELSE IF FindSession(tok.jti) = NoJti THEN "Session not found"
  ELSE LET session == sessions[tok.jti] IN
    IF session.expiresAt < t THEN "Session expired"
    ELSE IF ~BcryptCompare(TokenString(tok), session.refreshHash)
      THEN "Invalid refresh token"
    ELSE IF tok.tokenVersion # users[session.userId].tokenVersion
      THEN "Token has been globally revoked"
    ELSE ""

\* The first check of AuthService.refresh that rejects, "" when none does.
RefreshReject(tok, t) ==
  IF ~Verify(tok, t) THEN "Invalid or expired refresh token"
  ELSE IF FindSession(tok.jti) = NoJti THEN "Session not found"
  ELSE LET session == sessions[tok.jti] IN
    IF session.revokedAt # NoTime THEN "Refresh token has been revoked"
    ELSE IF session.expiresAt < t THEN "Session expired"
    ELSE IF ~BcryptCompare(TokenString(tok), session.refreshHash)
      THEN "Invalid refresh token"
    ELSE IF tok.tokenVersion # users[session.userId].tokenVersion
      THEN "Token has been globally revoked"
    ELSE ""

\* RefreshLoad with escalating reuse detection: presenting the token of a
\* revoked session revokes every session of its owner.
RefreshLoadEscalate(p, tok) ==
  /\ CanStart(p)
  /\ RoomForSession
  /\ LET why == RefreshReject(tok, now) IN
     IF why # ""
       THEN /\ Finish(p, [op |-> "refresh", status |-> "Unauthorized", msg |-> why])
            /\ sessions' =
                 IF why = "Refresh token has been revoked"
                   THEN [j \in Jtis |->
                          IF sessions[j].userId = sessions[tok.jti].userId
                               /\ sessions[j].revokedAt = NoTime
                            THEN [sessions[j] EXCEPT !.revokedAt = now]
                            ELSE sessions[j]]
                   ELSE sessions
       ELSE /\ Goto(p, "refreshRotate",
                 [op |-> "refresh", tok |-> tok, id |-> tok.jti,
                  session |-> sessions[tok.jti],
                  userTokenVersion |-> users[sessions[tok.jti].userId].tokenVersion])
            /\ UNCHANGED sessions
  /\ UNCHANGED <<users, now, accessTtl, issued>>

\* AuthService.refresh: verify, load the session with its user, check
RefreshLoad(p, tok) ==
  /\ CanStart(p)
  /\ RoomForSession
  /\ LET why == RefreshReject(tok, now) IN
     IF why # ""
       THEN Finish(p, [op |-> "refresh", status |-> "Unauthorized",
                       msg |-> why])
       ELSE Goto(p, "refreshRotate",
                 [op |-> "refresh", tok |-> tok, id |-> tok.jti,
                  session |-> sessions[tok.jti],
                  userTokenVersion |-> users[sessions[tok.jti].userId].tokenVersion])
  /\ UNCHANGED <<users, sessions, now, accessTtl, issued>>

\* RotationTx that only inserts the new row.
RotationTxNoRevoke(id, newJti, newRow, t) == Append(sessions, newRow)

\* RotationTx as two separate writes of which the second is lost.
RotationTxPartial(id, newJti, newRow, t) ==
  [sessions EXCEPT ![id].revokedAt = t, ![id].replacedByJti = newJti]

\* RotationTx that records the successor on the old row but leaves it live.
RotationTxKeepOld(id, newJti, newRow, t) ==
  Append([sessions EXCEPT ![id].replacedByJti = newJti], newRow)

\* prisma.$transaction([session.update, session.create]) of a rotation
RotationTx(id, newJti, newRow, t) ==
  Append([sessions EXCEPT ![id].revokedAt = t, ![id].replacedByJti = newJti], newRow)

\* RotatedRow that gives the new row to the user registered last.
RotatedRowLastUser(session, userId, refreshHash, t) ==
  [userId |-> Len(users),
   refreshHash |-> refreshHash,
   platform |-> session.platform,
   deviceLabel |-> session.deviceLabel,
   userAgent |-> session.userAgent,
   ip |-> session.ip,
   expiresAt |-> t + RefreshTtl,
   revokedAt |-> NoTime,
   replacedByJti |-> NoJti]

\* RotatedRow that takes the device metadata from a request without any.
RotatedRowFresh(session, userId, refreshHash, t) ==
  [userId |-> userId,
   refreshHash |-> refreshHash,
   platform |-> "WEB",
   deviceLabel |-> "none",
   userAgent |-> "ua1",
   ip |-> "ip1",
   expiresAt |-> t + RefreshTtl,
   revokedAt |-> NoTime,
   replacedByJti |-> NoJti]

\* The data of session.create in the rotation: the device metadata is copied
\* from the session that was loaded.
RotatedRow(session, userId, refreshHash, t) ==
  [userId |-> userId,
   refreshHash |-> refreshHash,
   platform |-> session.platform,
   deviceLabel |-> session.deviceLabel,
   userAgent |-> session.userAgent,
   ip |-> session.ip,
   expiresAt |-> t + RefreshTtl,
   revokedAt |-> NoTime,
   replacedByJti |-> NoJti]

\* AuthService.refresh: mint, rotate in one transaction, return the new pair
RefreshRotate(p) ==
  /\ pc[p] = "refreshRotate"
  /\ LET f == frame[p]
         newJti == Len(sessions) + 1
         payload == [sub |-> f.tok.sub, tokenVersion |-> f.userTokenVersion,
                     jti |-> newJti]
         newRefreshToken == signRefresh(payload, now)
         newAccessToken == signAccess(payload, now)
         newRow == RotatedRow(f.session, f.tok.sub,
                              BcryptHash(TokenString(newRefreshToken)), now)
     IN /\ sessions' = RotationTx(f.id, newJti, newRow, now)
        /\ issued' = Append(issued, [accessToken |-> newAccessToken,
                                     refreshToken |-> newRefreshToken,
                                     rotatedFrom |-> f.id])
        /\ Finish(p, [op |-> "refresh", status |-> "OK", tok |-> f.tok,
                      jti |-> newJti, accessToken |-> newAccessToken,
                      refreshToken |-> newRefreshToken])
  /\ UNCHANGED <<users, now, accessTtl>>

\* The rotation transaction fails in the store: nothing is written and the
\* error reaches the caller.
RefreshTxFail(p) ==
  /\ pc[p] = "refreshRotate"
  /\ Finish(p, [op |-> "refresh", status |-> "InternalError",
                  msg |-> "Internal server error"])
  /\ UNCHANGED <<users, sessions, now, accessTtl, issued>>

\* ------------------------------------------------------------ logout
\* LogoutReject without the already-revoked check.
LogoutRejectTolerant(userId, jti) ==
  IF FindSession(jti) = NoJti
    THEN [status |-> "BadRequest", msg |-> "Session not found"]
  ELSE IF sessions[jti].userId # userId
    THEN [status |-> "Unauthorized", msg |-> "Not authorized to revoke this session"]
  ELSE Accept

\* The first check of AuthService.logout that throws, Accept when none does.
LogoutReject(userId, jti) ==
  IF FindSession(jti) = NoJti
    THEN [status |-> "BadRequest", msg |-> "Session not found"]
  ELSE IF sessions[jti].userId # userId
    THEN [status |-> "Unauthorized", msg |-> "Not authorized to revoke this session"]
  ELSE IF sessions[jti].revokedAt # NoTime
    THEN [status |-> "BadRequest", msg |-> "Session already logged out"]
  ELSE Accept

\* AuthService.logout: load and check
LogoutFind(p, userId, jti) ==
  /\ CanStart(p)
  /\ LET why == LogoutReject(userId, jti) IN
     IF why # Accept
       THEN Finish(p, [op |-> "logout", status |-> why.status, msg |-> why.msg])
       ELSE Goto(p, "logoutUpdate", [op |-> "logout", userId |-> userId, jti |-> jti])
  /\ UNCHANGED <<users, sessions, now, accessTtl, issued>>

\* Revoke as a toggle: revoking a revoked session clears revokedAt.
RevokeToggle(jti, t) ==
  [sessions EXCEPT ![jti].revokedAt = IF @ = NoTime THEN t ELSE NoTime]

\* Revoke with the owner in its where clause instead of the jti: every live
\* session of the owner is revoked.
RevokeOwner(jti, t) ==
  [j \in Jtis |->
     IF sessions[j].userId = sessions[jti].userId /\ sessions[j].revokedAt = NoTime
       THEN [sessions[j] EXCEPT !.revokedAt = t]
       ELSE sessions[j]]

\* Revoke that also ends the row's validity window at the time of the revoke.
RevokeTouch(jti, t) ==
  [sessions EXCEPT ![jti].revokedAt = t, ![jti].expiresAt = t]

\* prisma.session.update({where: {jti}, data: {revokedAt: new Date()}})
Revoke(jti, t) == [sessions EXCEPT ![jti].revokedAt = t]

\* AuthService.logout: revoke
LogoutUpdate(p) ==
  /\ pc[p] = "logoutUpdate"
  /\ sessions' = Revoke(frame[p].jti, now)
  /\ Finish(p, [op |-> "logout", status |-> "OK", jti |-> frame[p].jti,
                userId |-> frame[p].userId])
  /\ UNCHANGED <<users, now, accessTtl, issued>>

\* LogoutDeviceReject without the ownership check.
LogoutDeviceRejectAnyone(jti, userId) ==
  IF FindSession(jti) = NoJti
    THEN [status |-> "BadRequest", msg |-> "Session not found"]
  ELSE Accept

\* The first check of AuthService.logoutDevice that throws, Accept when none.
LogoutDeviceReject(jti, userId) ==
  IF FindSession(jti) = NoJti
    THEN [status |-> "BadRequest", msg |-> "Session not found"]
  ELSE IF sessions[jti].userId # userId
    THEN [status |-> "Unauthorized", msg |-> "Not authorized to revoke this session"]
  ELSE Accept

\* AuthService.logoutDevice: load and check
LogoutDeviceFind(p, jti, userId) ==
  /\ CanStart(p)
  /\ LET why == LogoutDeviceReject(jti, userId) IN
     IF why # Accept
       THEN Finish(p, [op |-> "logoutDevice", status |-> why.status, msg |-> why.msg])
       ELSE Goto(p, "logoutDeviceUpdate",
                 [op |-> "logoutDevice", userId |-> userId, jti |-> jti])
  /\ UNCHANGED <<users, sessions, now, accessTtl, issued>>

\* AuthService.logoutDevice: revoke
LogoutDeviceUpdate(p) ==
  /\ pc[p] = "logoutDeviceUpdate"
  /\ sessions' = Revoke(frame[p].jti, now)
  /\ Finish(p, [op |-> "logoutDevice", status |-> "OK", jti |-> frame[p].jti,
                userId |-> frame[p].userId])
  /\ UNCHANGED <<users, now, accessTtl, issued>>

\* ------------------------------------------------------------ revokeAll
\* bumpTokenVersion as a write of the version that follows registration's: a
\* second revoke is lost.
bumpTokenVersionSet(id) == [users EXCEPT ![id].tokenVersion = 1]

\* bumpTokenVersion without its where clause: every user is incremented.
bumpTokenVersionAll(id) ==
  [u \in UserIds |-> [users[u] EXCEPT !.tokenVersion = @ + 1]]

\* usersService.bumpTokenVersion: update ... set tokenVersion = tokenVersion + 1
bumpTokenVersion(id) == [users EXCEPT ![id].tokenVersion = @ + 1]

\* AuthService.revokeAll
RevokeAll(p, userId) ==
  /\ CanStart(p)
  /\ userId \in UserIds
  /\ users' = bumpTokenVersion(userId)
  /\ Finish(p, [op |-> "revokeAll", status |-> "OK", userId |-> userId])
  /\ UNCHANGED <<sessions, now, accessTtl, issued>>

\* ------------------------------------------------------------ authenticator
\* UserReject without the tokenVersion comparison.
UserRejectNoVersion(tok, t) ==
  IF ~Verify(tok, t) THEN "Unauthorized"
  ELSE IF findById(tok.sub) = NoUser THEN "User not found"
  ELSE ""

\* passport-jwt's verification and the user checks of JwtStrategy.validate:
\* the first that rejects, "" when none does.
UserReject(tok, t) ==
  IF ~Verify(tok, t) THEN "Unauthorized"
  ELSE IF findById(tok.sub) = NoUser THEN "User not found"
  ELSE IF tok.tokenVersion # users[tok.sub].tokenVersion
    THEN "Token has been revoked (global logout)"
  ELSE ""

\* Request Authenticator: verify the bearer token, load and check the user
ValidateUser(p, tok) ==
  /\ CanStart(p)
  /\ LET why == UserReject(tok, now) IN
     IF why # ""
       THEN Finish(p, [op |-> "validate", status |-> "Unauthorized", msg |-> why])
       ELSE Goto(p, "validateSession",
                 [op |-> "validate", tok |-> tok, user |-> users[tok.sub]])
  /\ UNCHANGED <<users, sessions, now, accessTtl, issued>>

\* SessionReject without the revocation check.
SessionRejectNoRevoked(jti, t) ==
  IF FindSession(jti) = NoJti THEN "Session not found"
  ELSE IF sessions[jti].expiresAt < t THEN "Session expired"
  ELSE ""

\* SessionReject with the expiry check ahead of the revocation check.
SessionRejectExpiryFirst(jti, t) ==
  IF FindSession(jti) = NoJti THEN "Session not found"
  ELSE IF sessions[jti].expiresAt < t THEN "Session expired"
  ELSE IF sessions[jti].revokedAt # NoTime THEN "Session has been logged out"
  ELSE ""

\* The first session check of JwtStrategy.validate that rejects, "" when none.
SessionReject(jti, t) ==
  IF FindSession(jti) = NoJti THEN "Session not found"
  ELSE IF sessions[jti].revokedAt # NoTime THEN "Session has been logged out"
  ELSE IF sessions[jti].expiresAt < t THEN "Session expired"
  ELSE ""

\* JwtStrategy.validate: load the session, check, attach {user, jti}
ValidateSession(p) ==
  /\ pc[p] = "validateSession"
  /\ LET f == frame[p]
         why == SessionReject(f.tok.jti, now) IN
     IF why # ""
       THEN Finish(p, [op |-> "validate", status |-> "Unauthorized",
                       msg |-> why])
       ELSE Finish(p, [op |-> "validate", status |-> "OK", tok |-> f.tok,
                       user |-> f.user, userId |-> f.tok.sub, jti |-> f.tok.jti])
  /\ UNCHANGED <<users, sessions, now, accessTtl, issued>>

\* ------------------------------------------------------------ clock
Tick ==
  /\ now < MaxTime
  /\ now' = now + 1
  /\ UNCHANGED <<users, sessions, accessTtl, pc, frame, issued>>

\* ------------------------------------------------------------ specifications
RegisterStep(p) ==
  \/ \E e \in Emails : RegisterFind(p, e)
  \/ RegisterCreate(p)

\* Logins from the devices D.
LoginStep(p, D) ==
  \/ \E e \in Emails, pw \in Passwords, m \in D : LoginFind(p, e, pw, m)
  \/ LoginCreate(p)

RefreshStep(p) ==
  \/ \E tok \in Presentable : RefreshLoad(p, tok)
  \/ RefreshRotate(p)
  \/ RefreshTxFail(p)

LogoutStep(p) ==
  \/ \E u \in UserIds, j \in Jtis \cup {NoJti} : LogoutFind(p, u, j)
  \/ LogoutUpdate(p)

LogoutDeviceStep(p) ==
  \/ \E u \in UserIds, j \in Jtis \cup {NoJti} : LogoutDeviceFind(p, j, u)
  \/ LogoutDeviceUpdate(p)

\* revokeAll for a user who has called it fewer than cap times.
RevokeAllUpTo(p, cap) ==
  \E u \in UserIds : users[u].tokenVersion < cap /\ RevokeAll(p, u)

RevokeAllStep(p) == RevokeAllUpTo(p, MaxVersion)

ValidateStep(p) ==
  \/ \E tok \in Presentable : ValidateUser(p, tok)
  \/ ValidateSession(p)

SessionStep(p) ==
  \/ RefreshStep(p)
  \/ LogoutStep(p)
  \/ LogoutDeviceStep(p)
  \/ RevokeAllStep(p)
  \/ ValidateStep(p)

\* The service as deployed: any requests, at most two in flight, and the clock.
Next ==
  \/ \E p \in Procs : RegisterStep(p) \/ LoginStep(p, Devices) \/ SessionStep(p)
  \/ Tick

Spec == Init /\ [][Next]_vars

\* The state after the accounts `emails` have registered, nobody logged in yet.
Registered(emails) ==
  /\ users = [i \in 1..Len(emails) |->
               [email |-> emails[i], password |-> Password, tokenVersion |-> 0]]
  /\ sessions = <<>>
  /\ now = 0
  /\ pc = [p \in Procs |-> "idle"]
  /\ frame = [p \in Procs |-> Idle]
  /\ issued = <<>>

WebOnly == {d \in Devices : d.platform = "WEB"}

\* Two writing requests in flight over the sessions of one account, the clock
\* standing still.
RaceInit == Registered(<<"a@x">>) /\ accessTtl = 1
RaceNext ==
  \E p \in Procs :
    \/ LoginStep(p, WebOnly)
    \/ RefreshStep(p)
    \/ LogoutStep(p)
    \/ RevokeAllStep(p)
RaceSpec == RaceInit /\ [][RaceNext]_vars

\* The requests of one client, and beside them an authenticated request or a
\* refresh of a second client, the clock standing still.
GuardInit == Registered(<<"a@x">>) /\ accessTtl = 1
GuardNext ==
  \/ LoginStep(1, WebOnly)
  \/ RefreshStep(1)
  \/ LogoutStep(1)
  \/ LogoutDeviceStep(1)
  \/ RevokeAllStep(1)
  \/ RefreshStep(2)
  \/ ValidateStep(2)
GuardSpec == GuardInit /\ [][GuardNext]_vars

\* Two accounts; logins, refreshes and global revokes, two in flight together.
RevokeInit == Registered(<<"a@x", "b@x">>) /\ accessTtl = 1
RevokeNext ==
  \E p \in Procs :
    \/ LoginStep(p, WebOnly)
    \/ RefreshStep(p)
    \/ RevokeAllUpTo(p, MaxRevokes)
RevokeSpec == RevokeInit /\ [][RevokeNext]_vars

\* Two accounts; logins, refreshes and the two session-level logouts, and
\* beside them a second logoutDevice in flight.
OwnerInit == Registered(<<"a@x", "b@x">>) /\ accessTtl = 1
OwnerNext ==
  \/ LoginStep(1, WebOnly)
  \/ RefreshStep(1)
  \/ LogoutStep(1)
  \/ LogoutDeviceStep(1)
  \/ LogoutDeviceStep(2)
OwnerSpec == OwnerInit /\ [][OwnerNext]_vars

\* One request after another over the sessions of one account, the clock
\* standing still.
SeqInit == Registered(<<"a@x">>) /\ accessTtl = 1
SeqNext == LoginStep(1, Devices) \/ SessionStep(1)
SeqSpec == SeqInit /\ [][SeqNext]_vars

\* One request after another while the clock runs, under either configuration
\* of the access-token lifetime.
ClockInit == Registered(<<"a@x">>) /\ accessTtl \in AccessTtls
ClockNext ==
  \/ LoginStep(1, WebOnly)
  \/ RefreshStep(1)
  \/ ValidateStep(1)
  \/ LogoutStep(1)
  \/ Tick
ClockSpec == ClockInit /\ [][ClockNext]_vars

\* One request after another over the sessions of one account while the clock
\* runs: logins, refreshes and the two session-level logouts.
DeviceInit == Registered(<<"a@x">>) /\ accessTtl = 1
DeviceNext ==
  \/ LoginStep(1, WebOnly)
  \/ RefreshStep(1)
  \/ LogoutStep(1)
  \/ LogoutDeviceStep(1)
  \/ Tick
DeviceSpec == DeviceInit /\ [][DeviceNext]_vars

\* One request after another while the clock runs, under either configuration
\* of the access-token lifetime: two logins at most, logouts, global revokes
\* and authenticated requests.
AuthnInit == Registered(<<"a@x">>) /\ accessTtl \in AccessTtls
AuthnNext ==
  \/ Len(sessions) < 2 /\ LoginStep(1, WebOnly)
  \/ LogoutStep(1)
  \/ RevokeAllStep(1)
  \/ ValidateStep(1)
  \/ Tick
AuthnSpec == AuthnInit /\ [][AuthnNext]_vars

\* The service from its deployment on: registrations and logins, two in flight
\* together.
SignupInit == Init /\ accessTtl = 1
SignupNext == \E p \in Procs : RegisterStep(p) \/ LoginStep(p, WebOnly)
SignupSpec == SignupInit /\ [][SignupNext]_vars

\* One request after another, every operation that writes: registrations,
\* logins, refreshes, the two session-level logouts and one global revoke per
\* user.
WriterInit == Registered(<<"a@x">>) /\ accessTtl = 1
WriterNext ==
  \/ RegisterStep(1)
  \/ LoginStep(1, WebOnly)
  \/ RefreshStep(1)
  \/ LogoutStep(1)
  \/ LogoutDeviceStep(1)
  \/ RevokeAllUpTo(1, 1)
WriterSpec == WriterInit /\ [][WriterNext]_vars

\* AuthController.logoutDevice behind JwtAuthGuard: the request was
\* authenticated in this slot, the caller is the user the guard attached and
\* the target jti comes from the body.
AuthedLogoutDevice(p) ==
  /\ pc[p] = "done" /\ frame[p].op = "validate" /\ frame[p].status = "OK"
  /\ \E j \in Jtis \cup {NoJti} : LogoutDeviceFind(p, j, frame[p].userId)

\* One request after another over the sessions of one account: logins, and
\* authenticated requests that go on to logoutDevice.
CallerInit == Registered(<<"a@x">>) /\ accessTtl = 1
CallerNext ==
  \/ LoginStep(1, Devices)
  \/ ValidateStep(1)
  \/ AuthedLogoutDevice(1)
  \/ LogoutDeviceUpdate(1)
CallerSpec == CallerInit /\ [][CallerNext]_vars

\* ------------------------------------------------------------ properties
Done(p, op, status) ==
  pc[p] = "done" /\ frame[p].op = op /\ frame[p].status = status

\* The handler in slot p responds in this step.
Responds(p, op, status) ==
  /\ pc'[p] = "done" /\ frame'[p].op = op /\ frame'[p].status = status
  /\ pc[p] # "done" \/ frame[p] # frame'[p]

\* The sessions created by rotating session j.
Successors(j) == {k \in DOMAIN issued : issued[k].rotatedFrom = j}

Live(j) == sessions[j].revokedAt = NoTime

\* C1: two refresh calls in flight together with the same refresh token never
\* both return new tokens.
C1_OneRefreshPerToken ==
  \A p, q \in Procs :
    (/\ p # q
     /\ Done(p, "refresh", "OK")
     /\ Done(q, "refresh", "OK")
     /\ frame[p].tok = issued[frame[p].tok.jti].refreshToken)
      => frame[p].tok # frame[q].tok

\* C2 (state part): a refresh token is rotated at most once, once its session
\* is rotated away the token is rejected, and the token of a live session whose
\* tokenVersion is current is accepted.
C2_State ==
  \A j \in Jtis :
    LET T == issued[j].refreshToken IN
    /\ Cardinality(Successors(j)) <= 1
    /\ sessions[j].replacedByJti # NoJti => RefreshReject(T, now) # ""
    /\ (Live(j) /\ T.tokenVersion = users[T.sub].tokenVersion)
         => RefreshReject(T, now) = ""

\* C2 (step part): a rejected refresh writes nothing, so the newest token of
\* the chain stays usable.
C2_Step ==
  \A p \in Procs :
    Responds(p, "refresh", "Unauthorized") => sessions' = sessions /\ users' = users

\* C2: requests running one after another, the refresh token of a login is
\* rotated exactly once, every later replay of it is rejected, and the token
\* returned by the rotation is still accepted after a rejected replay.
C2_ReplayOnce == []C2_State /\ [][C2_Step]_vars

\* C2 witness: a replay of a rotated-away login token was just rejected and
\* the successor's token is accepted.
C2_Witness ==
  /\ Done(1, "refresh", "Unauthorized")
  /\ frame[1].msg = "Refresh token has been revoked"
  /\ \E j \in Jtis :
       /\ issued[j].rotatedFrom = NoJti
       /\ sessions[j].replacedByJti \in Jtis
       /\ Live(sessions[j].replacedByJti)
       /\ RefreshReject(issued[sessions[j].replacedByJti].refreshToken, now) = ""

\* C3: no partial rotation.  A forward pointer names an existing session and
\* sits on a revoked one, the predecessor of a session created by refresh is
\* revoked, and a refresh that returned tokens has both of its writes in the
\* store.
C3_AllOrNothing ==
  /\ Len(issued) = Len(sessions)
  /\ \A j \in Jtis :
       /\ sessions[j].replacedByJti # NoJti =>
            sessions[j].replacedByJti \in Jtis /\ ~Live(j)
       /\ issued[j].rotatedFrom # NoJti => ~Live(issued[j].rotatedFrom)
  /\ \A p \in Procs :
       Done(p, "refresh", "OK") =>
         /\ frame[p].jti \in Jtis
         /\ issued[frame[p].jti].rotatedFrom = frame[p].tok.jti
         /\ ~Live(frame[p].tok.jti)
         /\ sessions[frame[p].tok.jti].replacedByJti # NoJti

\* C3 witness: a rotation transaction failed, and a rotation committed.
C3_Witness ==
  /\ \E p \in Procs : Done(p, "refresh", "InternalError")
  /\ \E j \in Jtis : issued[j].rotatedFrom # NoJti

\* C4 (state part): an access token never carries a tokenVersion ahead of its
\* user's, and one that is behind is rejected by the authenticator.
C4_State ==
  \A j \in Jtis :
    LET T == issued[j].accessToken IN
    /\ T.tokenVersion <= users[T.sub].tokenVersion
    /\ T.tokenVersion # users[T.sub].tokenVersion => UserReject(T, now) # ""

\* C4 (step part): right after a revokeAll of user u the authenticator rejects
\* the access token of every session of u.
C4_Step ==
  \A u \in UserIds :
    users'[u].tokenVersion # users[u].tokenVersion =>
      \A j \in Jtis :
        sessions[j].userId = u => UserReject(issued[j].accessToken, now)' # ""

\* C4: revokeAll invalidates every access token issued to the user before it,
\* from the next request on, whatever the state of the Session rows.
C4_RevokeAllKillsAccess == []C4_State /\ [][C4_Step]_vars

\* C4 witness: two sessions of one user, both live with unexpired access
\* tokens, a revokeAll has completed and a request was rejected for it.
C4_Witness ==
  /\ \E p \in Procs :
       /\ Done(p, "validate", "Unauthorized")
       /\ frame[p].msg = "Token has been revoked (global logout)"
  /\ \E j, k \in Jtis :
       /\ j # k
       /\ sessions[j].userId = sessions[k].userId
       /\ users[sessions[j].userId].tokenVersion = 1
       /\ \A i \in {j, k} :
            /\ Live(i)
            /\ sessions[i].expiresAt > now
            /\ Verify(issued[i].accessToken, now)
            /\ UserReject(issued[i].accessToken, now) # ""

\* C5: a rotation commits only for a refresh token whose tokenVersion is the
\* user's current one.
C5_NoRotationAfterRevokeAll ==
  [][\A p \in Procs :
       (pc[p] = "refreshRotate" /\ Responds(p, "refresh", "OK"))
         => frame[p].tok.tokenVersion = users[frame[p].tok.sub].tokenVersion]_vars

\* C6 (state part): a request that arrives with a token of a revoked session
\* is rejected, by refresh and by the authenticator.
C6_State ==
  \A j \in Jtis :
    ~Live(j) =>
      \A tok \in Presentable :
        tok.jti = j => RefreshReject(tok, now) # "" /\ SessionReject(tok.jti, now) # ""

\* C6 (step part): revokedAt, once set, stays set, and the authenticator
\* accepts only while the session is not revoked.
C6_Step ==
  /\ \A j \in Jtis : ~Live(j) => j \in DOMAIN sessions' /\ sessions'[j].revokedAt # NoTime
  /\ \A p \in Procs : Responds(p, "validate", "OK") => Live(frame'[p].jti)

C7_LiveOnly ==
  [][\A p \in Procs :
       /\ Responds(p, "validate", "OK") => sessions[frame'[p].jti].expiresAt > now
       /\ (pc[p] # "refreshRotate" /\ pc'[p] = "refreshRotate")
            => sessions[frame'[p].tok.jti].expiresAt > now]_vars

RECURSIVE Root(_)
\* The login session at the head of j's rotation chain.
Root(j) == IF issued[j].rotatedFrom = NoJti THEN j ELSE Root(issued[j].rotatedFrom)

Chain(r) == {j \in Jtis : Root(j) = r}

\* Nothing but rotation has touched the chain: no session of it was ended by
\* logout or logoutDevice and its owner's tokenVersion was never incremented.
OnlyRotated(r) ==
  /\ \A j \in Chain(r) : ~Live(j) => sessions[j].replacedByJti # NoJti
  /\ users[sessions[r].userId].tokenVersion = 0

\* C8: requests running one after another, a chain that only rotation has
\* touched links each session to its single successor, all of its sessions but
\* the newest are revoked, the newest is live and its token is accepted.
C8_Chain ==
  \A r \in Jtis :
    (issued[r].rotatedFrom = NoJti /\ OnlyRotated(r)) =>
      /\ Cardinality({j \in Chain(r) : Live(j)}) = 1
      /\ \A j \in Chain(r) :
           /\ Cardinality(Successors(j)) <= 1
           /\ Live(j) <=> Successors(j) = {}
           /\ Live(j) => RefreshReject(issued[j].refreshToken, now) = ""
           /\ \A k \in Successors(j) :
                k # j /\ ~Live(j) /\ sessions[j].replacedByJti = k

\* C8 witness: the second refresh of a chain has just returned.
C8_Witness ==
  /\ Done(1, "refresh", "OK")
  /\ LET j == frame[1].jti IN
       /\ issued[j].rotatedFrom # NoJti
       /\ issued[issued[j].rotatedFrom].rotatedFrom # NoJti
       /\ OnlyRotated(Root(j))
       /\ Live(j)

\* C9: a refresh that is rejected by one of its checks answers Unauthorized
\* and writes no Session row and no User row.
C9_NoEscalation ==
  [][\A p \in Procs :
       (pc[p] # "refreshRotate" /\ pc'[p] = "done" /\ frame'[p].op = "refresh"
          /\ (pc[p] # "done" \/ frame[p] # frame'[p]))
         => /\ frame'[p].status = "Unauthorized"
            /\ sessions' = sessions
            /\ users' = users
            /\ issued' = issued]_vars

\* C9 witness: a rotated-away token was presented and rejected; its successor
\* is live and the owner's tokenVersion is untouched.
C9_Witness ==
  /\ \E p \in Procs :
       /\ Done(p, "refresh", "Unauthorized")
       /\ frame[p].msg = "Refresh token has been revoked"
  /\ \A j \in Jtis :
       /\ users[sessions[j].userId].tokenVersion = 0
       /\ ~Live(j) => sessions[j].replacedByJti \in Jtis
  /\ \E j \in Jtis : ~Live(j) /\ Live(sessions[j].replacedByJti)

\* C10: refresh passes its checks only for the very string that was issued as
\* the refresh token of the session named by the jti.
C10_ExactString ==
  \A p \in Procs :
    pc[p] = "refreshRotate" =>
      frame[p].tok = issued[frame[p].tok.jti].refreshToken

\* The device metadata of a Session row.
Metadata(row) ==
  [platform |-> row.platform, deviceLabel |-> row.deviceLabel,
   userAgent |-> row.userAgent, ip |-> row.ip]

\* C11: a session created by refresh carries the platform, deviceLabel,
\* userAgent and ip of the session it replaced, hence of the login session at
\* the head of its chain.
C11_MetadataPreserved ==
  \A j \in Jtis :
    issued[j].rotatedFrom # NoJti =>
      /\ Metadata(sessions[j]) = Metadata(sessions[issued[j].rotatedFrom])
      /\ Metadata(sessions[j]) = Metadata(sessions[Root(j)])

\* C11 witness: a login from the mobile device has been rotated twice.
C11_Witness ==
  \E j \in Jtis :
    /\ issued[j].rotatedFrom # NoJti
    /\ issued[issued[j].rotatedFrom].rotatedFrom # NoJti
    /\ sessions[Root(j)].platform = "MOBILE"
    /\ sessions[j].ip = "ip2"

\* C12: tokenVersion counts the completed revokeAll calls.  It never
\* decreases, every completed revokeAll(u) adds exactly 1 to u's tokenVersion,
\* and nothing else changes it, whatever logins, refreshes and other revokes
\* are in flight.
C12_ExactCount ==
  [][\A u \in UserIds :
       /\ u \in DOMAIN users'
       /\ users'[u].tokenVersion >= users[u].tokenVersion
       /\ users'[u].tokenVersion # users[u].tokenVersion =>
            /\ users'[u].tokenVersion = users[u].tokenVersion + 1
            /\ \E p \in Procs :
                 /\ SlotFree(p)
                 /\ pc'[p] = "done"
                 /\ frame'[p] = [op |-> "revokeAll", status |-> "OK", userId |-> u]
       /\ \A p \in Procs :
            (Responds(p, "revokeAll", "OK") /\ frame'[p].userId = u)
              => users'[u].tokenVersion = users[u].tokenVersion + 1]_vars

\* C12 witness: two revokeAll calls of one user have completed, a login
\* between them, and the user's tokenVersion is 2.
C12_Witness ==
  \E u \in UserIds :
    /\ users[u].tokenVersion = 2
    /\ \A p \in Procs : Done(p, "revokeAll", "OK") /\ frame[p].userId = u
    /\ \E j \in Jtis : sessions[j].userId = u /\ issued[j].accessToken.tokenVersion = 1

\* C13: a completed revokeAll(u) changes u's tokenVersion and nothing else: no
\* Session row is created or modified, no other column of u, no other user.
C13_RevokeAllFrame ==
  [][\A p \in Procs :
       Responds(p, "revokeAll", "OK") =>
         /\ sessions' = sessions
         /\ DOMAIN users' = DOMAIN users
         /\ \A v \in UserIds :
              IF v = frame'[p].userId
                THEN users'[v] = [users[v] EXCEPT !.tokenVersion = @ + 1]
                ELSE users'[v] = users[v]]_vars

\* C13 witness: revokeAll of the first user has completed; that user's session
\* is still not revoked in storage and the second user, logged in as well, is
\* still at tokenVersion 0.
C13_Witness ==
  /\ \E p \in Procs : Done(p, "revokeAll", "OK") /\ frame[p].userId = 1
  /\ users[1].tokenVersion = 1
  /\ users[2].tokenVersion = 0
  /\ \E j, k \in Jtis :
       /\ sessions[j].userId = 1 /\ Live(j)
       /\ issued[j].accessToken.tokenVersion = 0
       /\ sessions[k].userId = 2 /\ Live(k)

\* C14 (state part): logout by the owner is refused with BadRequest on a
\* session that is already revoked.
C14_State ==
  \A j \in Jtis :
    ~Live(j) =>
      LogoutReject(sessions[j].userId, j) =
        [status |-> "BadRequest", msg |-> "Session already logged out"]

\* C14 (step part): a logout that succeeds found the session live and sets its
\* revokedAt; a logout that fails leaves every session as it was.
C14_Step ==
  \A p \in Procs :
    /\ Responds(p, "logout", "OK") =>
         /\ Live(frame'[p].jti)
         /\ sessions' = [sessions EXCEPT ![frame'[p].jti].revokedAt = now]
    /\ Responds(p, "logout", "BadRequest") => sessions' = sessions

\* C14: logout is not idempotent.  The first logout of a live session by its
\* owner succeeds and sets revokedAt; every later logout of the same session
\* fails with BadRequest and changes nothing.
C14_LogoutOnce == []C14_State /\ [][C14_Step]_vars

\* C14 witness: the second logout of a session has just been refused.
C14_Witness ==
  /\ Done(1, "logout", "BadRequest")
  /\ frame[1].msg = "Session already logged out"
  /\ \E j \in Jtis : ~Live(j) /\ sessions[j].replacedByJti = NoJti
  /\ \A j \in Jtis : Live(j) \/ sessions[j].replacedByJti = NoJti

\* C15 (state part): logout and logoutDevice refuse a caller who does not own
\* the session, with an Unauthorized error.
C15_State ==
  \A j \in Jtis :
    \A u \in UserIds :
      u # sessions[j].userId =>
        /\ LogoutReject(u, j).status = "Unauthorized"
        /\ LogoutDeviceReject(j, u).status = "Unauthorized"

\* C15 (step part): a refused logout or logoutDevice writes nothing, and one
\* that succeeds was called by the owner of the session it revokes.
C15_Step ==
  \A p \in Procs :
    \A op \in {"logout", "logoutDevice"} :
      /\ Responds(p, op, "Unauthorized") => sessions' = sessions
      /\ Responds(p, op, "OK") =>
           frame'[p].userId = sessions[frame'[p].jti].userId

\* C15: a user can never revoke another user's session.
C15_OwnerOnly == []C15_State /\ [][C15_Step]_vars

\* C15 witness: a user has just been refused on a session of the other user,
\* which is still live; both users have sessions.
C15_Witness ==
  /\ \E p \in Procs :
       /\ Done(p, "logoutDevice", "Unauthorized")
       /\ frame[p].msg = "Not authorized to revoke this session"
  /\ \E j, k \in Jtis : sessions[j].userId = 1 /\ sessions[k].userId = 2
  /\ \A j \in Jtis : Live(j)

\* C16: logoutDevice by the owner on a session that is already revoked
\* succeeds and leaves the Session table exactly as it was.
C16_RevokedNoOp ==
  [][\A p \in Procs :
       (Responds(p, "logoutDevice", "OK") /\ ~Live(frame'[p].jti))
         => sessions' = sessions]_vars

\* The tokens of session k are accepted: the refresh token by refresh, the
\* access token by the authenticator.
Usable(k) ==
  /\ RefreshReject(issued[k].refreshToken, now) = ""
  /\ UserReject(issued[k].accessToken, now) = ""
  /\ SessionReject(k, now) = ""

\* C17 (state part): logoutDevice with a jti that names no session is refused
\* with BadRequest.
C17_State ==
  \A u \in UserIds :
    LogoutDeviceReject(NoJti, u) =
      [status |-> "BadRequest", msg |-> "Session not found"]

\* C17 (step part): a logoutDevice refused with BadRequest writes nothing; one
\* that succeeds sets revokedAt on its target and touches no other row, so
\* every other session that was live is still live and its tokens, if they
\* were accepted before, are accepted after.
C17_Step ==
  \A p \in Procs :
    /\ Responds(p, "logoutDevice", "BadRequest") =>
         sessions' = sessions /\ users' = users
    /\ Responds(p, "logoutDevice", "OK") =>
         LET target == frame'[p].jti IN
         /\ sessions' = [sessions EXCEPT ![target].revokedAt = now]
         /\ users' = users
         /\ \A k \in Jtis \ {target} :
              /\ Live(k) => Live(k)'
              /\ Usable(k) => Usable(k)'

\* C17: logoutDevice revokes one device only.
C17_OneDevice == []C17_State /\ [][C17_Step]_vars

\* C17 witness: logoutDevice has just revoked one session of a user whose
\* other session, on another device, is live with both tokens accepted.
C17_Witness ==
  /\ Done(1, "logoutDevice", "OK")
  /\ ~Live(frame[1].jti)
  /\ \E k \in Jtis :
       /\ k # frame[1].jti
       /\ sessions[k].userId = sessions[frame[1].jti].userId
       /\ sessions[k].platform # sessions[frame[1].jti].platform
       /\ Live(k)
       /\ Usable(k)

\* Every payload {sub, tokenVersion, jti} in a token that passes verification,
\* whether or not the rows it names exist.
VerifiedTokens ==
  {[sub |-> u, tokenVersion |-> v, jti |-> j, exp |-> MaxTime + 1, sig |-> Secret] :
     u \in 0..MaxUsers, v \in 0..MaxVersion, j \in 0..MaxSessions}
    \cup {tok \in Presentable : Verify(tok, now)}

\* What the authenticator answers to a verified token: the reason of its
\* first failing check, "" when it accepts.
AuthOutcome(tok) ==
  IF UserReject(tok, now) # "" THEN UserReject(tok, now)
  ELSE SessionReject(tok.jti, now)

\* The answer C18 prescribes, reason by reason in the order it gives.
C18_Expected(tok) ==
  IF tok.sub \notin UserIds THEN "User not found"
  ELSE IF tok.tokenVersion # users[tok.sub].tokenVersion
    THEN "Token has been revoked (global logout)"
  ELSE IF tok.jti \notin Jtis THEN "Session not found"
  ELSE IF sessions[tok.jti].revokedAt # NoTime THEN "Session has been logged out"
  ELSE IF now > sessions[tok.jti].expiresAt THEN "Session expired"
  ELSE ""

\* C18 (state part): for every verified token the authenticator's answer is
\* the prescribed one.
C18_State == \A tok \in VerifiedTokens : AuthOutcome(tok) = C18_Expected(tok)

\* C18 (step part): an authenticated request ends OK or Unauthorized.  When it
\* reaches the session checks, it is accepted iff no reason applies, exposing
\* the user row and the token's jti, and is otherwise refused with the first
\* reason that applies.
C18_Step ==
  \A p \in Procs :
    (pc'[p] = "done" /\ frame'[p].op = "validate"
       /\ (pc[p] # "done" \/ frame[p] # frame'[p])) =>
      /\ frame'[p].status \in {"OK", "Unauthorized"}
      /\ pc[p] = "validateSession" =>
           LET tok == frame[p].tok IN
           IF C18_Expected(tok) = ""
             THEN /\ frame'[p].status = "OK"
                  /\ frame'[p].user = users[tok.sub]
                  /\ frame'[p].userId = tok.sub
                  /\ frame'[p].jti = tok.jti
             ELSE /\ frame'[p].status = "Unauthorized"
                  /\ frame'[p].msg = C18_Expected(tok)

\* C18: the Request Authenticator accepts a verified token iff the user
\* exists, the tokenVersion is current, the session exists, is not revoked and
\* its expiresAt has not passed; otherwise it answers Unauthorized with the
\* first reason in that order; on success it exposes the user and the jti.
C18_Authenticator == []C18_State /\ [][C18_Step]_vars

\* C18 witness: a request was refused for an expired session although its
\* token is still valid, and another token of the user is globally revoked.
C18_Witness ==
  /\ Done(1, "validate", "Unauthorized")
  /\ frame[1].msg = "Session expired"
  /\ \E tok \in Presentable :
       /\ Verify(tok, now)
       /\ AuthOutcome(tok) = "Token has been revoked (global logout)"
  /\ \E j \in Jtis : ~Live(j)

\* Two addresses that differ in letter case only.
SameAddress(e1, e2) == {e1, e2} \subseteq {"a@x", "A@x"} \/ e1 = e2

\* A registration for an address equal to e up to letter case has succeeded.
Taken(e) == \E u \in UserIds : SameAddress(users[u].email, e)

\* C19: a register call that starts after a registration for the same
\* address, letter case apart, has succeeded is answered Conflict at once and
\* creates no User row; a registration that succeeds found the address free,
\* and no two User rows ever share an address.
C19_Step ==
  \A p \in Procs :
    /\ (SlotFree(p) /\ pc'[p] = "registerCreate") => ~Taken(frame'[p].email)
    /\ (SlotFree(p) /\ pc'[p] = "done" /\ frame'[p].op = "register"
          /\ (pc[p] # "done" \/ frame[p] # frame'[p])) =>
         /\ Taken(frame'[p].email)
         /\ frame'[p].status = "Conflict"
         /\ users' = users
    /\ Responds(p, "register", "Conflict") => users' = users
    /\ Responds(p, "register", "OK") =>
         /\ ~Taken(frame'[p].email)
         /\ Len(users') = Len(users) + 1

C19_Unique ==
  \A u, v \in UserIds : SameAddress(users[u].email, users[v].email) => u = v

C19_DuplicateConflict == []C19_Unique /\ [][C19_Step]_vars

\* C19 witness: after a@x registered, a registration for A@x was answered
\* Conflict; the table holds the one row, tokenVersion 0.
C19_Witness ==
  /\ \E p \in Procs :
       /\ Done(p, "register", "Conflict")
       /\ frame[p].email = "A@x"
  /\ \E u \in UserIds : users[u].email = "a@x" /\ users[u].tokenVersion = 0
  /\ \A u \in UserIds : users[u].email # "b@x"

\* C20 (state part): login answers an unknown address and a wrong password
\* with one and the same error, Unauthorized "Invalid credentials".
C20_State ==
  \A e \in Emails :
    \A pw \in Passwords :
      (findByEmail(e) = NoUser \/ pw # Password) =>
        LoginReject(e, pw) = [status |-> "Unauthorized", msg |-> "Invalid credentials"]

\* C20 (step part): a login that fails answers that error and writes no
\* Session row and no User row.
C20_Step ==
  \A p \in Procs :
    (pc'[p] = "done" /\ frame'[p].op = "login" /\ frame'[p].status # "OK"
       /\ (pc[p] # "done" \/ frame[p] # frame'[p])) =>
      /\ frame'[p] = [op |-> "login", status |-> "Unauthorized",
                      msg |-> "Invalid credentials"]
      /\ sessions' = sessions
      /\ users' = users

\* C20: login fails with the same Unauthorized error whether the email is
\* unknown or the password is wrong, and then creates no Session row and
\* changes no User row.
C20_SameError == []C20_State /\ [][C20_Step]_vars

\* C20 witness: a login has just failed while an address is unknown, a
\* registered one can be tried with a wrong password, and a session exists.
C20_Witness ==
  /\ Done(1, "login", "Unauthorized")
  /\ findByEmail("b@x") = NoUser
  /\ findByEmail("A@x") # NoUser
  /\ LoginReject("b@x", Password) = LoginReject("A@x", "wrong")
  /\ LoginReject("b@x", Password) # Accept
  /\ Len(sessions) = 1

\* The sessions whose replacedByJti names session j.
Predecessors(j) == {i \in Jtis : sessions[i].replacedByJti = j}

\* C21: the replacedByJti pointers form singly-linked forward lists.  Every
\* session created by refresh is the target of exactly one session, no
\* session is the target of two, and no chain holds two live sessions.
C21_ForwardLists ==
  /\ \A j \in Jtis :
       /\ Cardinality(Predecessors(j)) <= 1
       /\ issued[j].rotatedFrom # NoJti => Cardinality(Predecessors(j)) = 1
  /\ \A r \in Jtis :
       issued[r].rotatedFrom = NoJti =>
         Cardinality({j \in Chain(r) : Live(j)}) <= 1

\* C22: when logout returns success, its session has revokedAt set and
\* replacedByJti null, and no session created by rotating it is live.
C22_TerminalRevoke ==
  [][\A p \in Procs :
       Responds(p, "logout", "OK") =>
         LET j == frame'[p].jti IN
         /\ sessions'[j].revokedAt # NoTime
         /\ sessions'[j].replacedByJti = NoJti
         /\ \A k \in Successors(j) : sessions'[k].revokedAt # NoTime]_vars

\* C23: the authenticator accepts only strings issued as access tokens, and
\* refresh passes its checks only for strings issued as refresh tokens.
C23_NotInterchangeable ==
  \A p \in Procs :
    /\ Done(p, "validate", "OK") =>
         frame[p].tok \in {issued[j].accessToken : j \in DOMAIN issued}
    /\ Done(p, "refresh", "OK") =>
         frame[p].tok \in {issued[j].refreshToken : j \in DOMAIN issued}

\* C24 (state part): once session j has been rotated, the authenticator
\* rejects every token that carries jti j.
C24_State ==
  \A j \in Jtis :
    Successors(j) # {} =>
      \A tok \in Presentable :
        (tok.jti = j /\ Verify(tok, now)) => AuthOutcome(tok) # ""

\* C24 (step part): the authenticator accepts a token only while the session
\* it names has not been rotated.
C24_Step ==
  \A p \in Procs :
    Responds(p, "validate", "OK") => Successors(frame'[p].jti) = {}

\* C24: rotation ends the superseded access token.  After a refresh of session
\* J has succeeded, tokens carrying jti J are rejected by the authenticator on
\* every later request; only the newest session of a chain authenticates.
C24_RotationEndsAccess == []C24_State /\ [][C24_Step]_vars

\* C24 witness: a request with a token of a rotated session has been refused,
\* nothing but rotation has revoked a session, and the successor's tokens are
\* accepted.
C24_Witness ==
  /\ Done(2, "validate", "Unauthorized")
  /\ frame[2].msg = "Session has been logged out"
  /\ \A j \in Jtis : ~Live(j) => sessions[j].replacedByJti \in Jtis
  /\ \E j \in Jtis :
       /\ Successors(j) # {}
       /\ Verify(issued[j].accessToken, now)
       /\ \E k \in Successors(j) : Live(k) /\ Usable(k)

\* C25 (state part): a session created by refresh has the userId of the
\* session it replaced, and the tokens returned with it carry that user as
\* sub.
C25_State ==
  \A j \in Jtis :
    issued[j].rotatedFrom # NoJti =>
      /\ sessions[j].userId = sessions[issued[j].rotatedFrom].userId
      /\ sessions[j].userId = sessions[Root(j)].userId
      /\ issued[j].accessToken.sub = sessions[j].userId
      /\ issued[j].refreshToken.sub = sessions[j].userId

\* C25 (step part): refresh proceeds to its rotation only with a token whose
\* sub is the owner of the session it loaded.
C25_Step ==
  \A p \in Procs :
    pc'[p] = "refreshRotate" => frame'[p].tok.sub = frame'[p].session.userId

\* C25: a rotation chain never changes owner.
C25_SameOwner == []C25_State /\ [][C25_Step]_vars

\* C25 witness: both users have logged in and the second user's session has
\* been rotated; the new session and its tokens are the second user's.
C25_Witness ==
  \E j, k \in Jtis :
    /\ sessions[k].userId = 1
    /\ issued[j].rotatedFrom # NoJti
    /\ sessions[j].userId = 2
    /\ issued[j].refreshToken.sub = 2
    /\ Done(1, "refresh", "OK")

\* C26: no two User rows share a normalized email, and a register call is
\* answered with success or with Conflict, never with another error, also
\* when two calls for the same email are in flight together.
C26_RaceConflict ==
  /\ \A u, v \in UserIds : SameAddress(users[u].email, users[v].email) => u = v
  /\ \A p \in Procs :
       (pc[p] = "done" /\ frame[p].op = "register") =>
         frame[p].status \in {"OK", "Conflict"}

\* C27: a logoutDevice call whose target is the session of the access token
\* that authenticated the request does not go on to revoke it.
C27_NotCurrent ==
  [][\A p \in Procs :
       (Done(p, "validate", "OK") /\ pc'[p] = "logoutDeviceUpdate")
         => frame'[p].jti # frame[p].jti]_vars

\* The handler in slot p responds to an operation of the set ops in this step.
RespondsTo(p, ops) ==
  /\ pc'[p] = "done" /\ frame'[p].op \in ops
  /\ pc[p] # "done" \/ frame[p] # frame'[p]

\* C28: a successful login adds exactly one Session row, a chain root under a
\* fresh jti, not revoked and without successor, and modifies no existing row;
\* a Session row is added only by a successful login or by a successful
\* refresh, which revokes the row's predecessor in the same step; register,
\* logout, logoutDevice and revokeAll add none.
C28_OnlyLoginAddsRoot ==
  [][/\ \A p \in Procs :
          /\ Responds(p, "login", "OK") =>
               LET j == frame'[p].jti IN
               /\ j \notin Jtis
               /\ Len(sessions') = Len(sessions) + 1
               /\ j = Len(sessions')
               /\ sessions'[j].revokedAt = NoTime
               /\ sessions'[j].replacedByJti = NoJti
               /\ \A i \in Jtis : sessions'[i] = sessions[i]
               /\ \A i \in Jtis : sessions'[i].replacedByJti # j
          /\ RespondsTo(p, {"register", "logout", "logoutDevice", "revokeAll"})
               => Len(sessions') = Len(sessions)
     /\ Len(sessions') # Len(sessions) =>
          /\ Len(sessions') = Len(sessions) + 1
          /\ \E p \in Procs :
               \/ Responds(p, "login", "OK")
               \/ /\ Responds(p, "refresh", "OK")
                  /\ frame[p].id \in Jtis
                  /\ sessions'[frame[p].id].revokedAt # NoTime
                  /\ sessions'[frame[p].id].replacedByJti = Len(sessions')]_vars

\* C28 witness: a login has just added a root beside a rotated chain, after a
\* second user registered.
C28_Witness ==
  /\ Done(1, "login", "OK")
  /\ Live(frame[1].jti)
  /\ issued[frame[1].jti].rotatedFrom = NoJti
  /\ \E j \in Jtis : issued[j].rotatedFrom # NoJti
  /\ Len(users) = 2

\* C29 (state part): a session that is not revoked and whose tokens carry the
\* user's current tokenVersion is usable, however many global revokes the
\* user has made.
C29_State ==
  \A j \in Jtis :
    (Live(j) /\ issued[j].refreshToken = signRefresh(
        [sub |-> sessions[j].userId,
         tokenVersion |-> users[sessions[j].userId].tokenVersion,
         jti |-> j], 0))
      => Usable(j)

\* C29 (step part): a login that succeeds, requests running one after another,
\* returns tokens that carry the user's current tokenVersion, and right after
\* it the access token is accepted and the refresh token passes refresh's
\* checks.
C29_Step ==
  \A p \in Procs :
    Responds(p, "login", "OK") =>
      /\ frame'[p].accessToken.tokenVersion = users[frame'[p].user].tokenVersion
      /\ frame'[p].refreshToken.tokenVersion = users[frame'[p].user].tokenVersion
      /\ \A j \in 1..(Len(sessions) + 1) : j = frame'[p].jti => Usable(j)'

\* C29: global revoke does not lock the user out.
C29_LoginAfterRevokeAll == []C29_State /\ [][C29_Step]_vars

\* C29 witness: after a revokeAll that ended an earlier session's tokens, a
\* login has just returned tokens at tokenVersion 1 and they are usable.
C29_Witness ==
  /\ Done(1, "login", "OK")
  /\ users[frame[1].user].tokenVersion = 1
  /\ frame[1].accessToken.tokenVersion = 1
  /\ Usable(frame[1].jti)
  /\ \E j \in Jtis : Live(j) /\ ~Usable(j)

\* The columns of a Session row that are fixed at creation; the jti is the
\* row's key.
Fixed(row) ==
  [userId |-> row.userId, refreshHash |-> row.refreshHash,
   platform |-> row.platform, deviceLabel |-> row.deviceLabel,
   userAgent |-> row.userAgent, ip |-> row.ip, expiresAt |-> row.expiresAt]

\* C30: no step removes a Session row; a row keeps its jti, userId,
\* refreshHash, platform, deviceLabel, userAgent, ip and expiresAt for ever;
\* revokedAt changes only in a successful logout, logoutDevice or refresh, and
\* replacedByJti only in a successful refresh.
C30_AppendOnly ==
  [][\A j \in Jtis :
       /\ j \in DOMAIN sessions'
       /\ Fixed(sessions'[j]) = Fixed(sessions[j])
       /\ sessions'[j].revokedAt # sessions[j].revokedAt =>
            \E p \in Procs :
              \/ Responds(p, "logout", "OK")
              \/ Responds(p, "logoutDevice", "OK")
              \/ Responds(p, "refresh", "OK")
       /\ sessions'[j].replacedByJti # sessions[j].replacedByJti =>
            \E p \in Procs : Responds(p, "refresh", "OK")]_vars

\* C30 witness: one row revoked by rotation and pointing at its successor,
\* another revoked by logout or logoutDevice without a successor, after a
\* global revoke.
C30_Witness ==
  /\ \E j \in Jtis :
       sessions[j].revokedAt # NoTime /\ sessions[j].replacedByJti # NoJti
  /\ \E j \in Jtis :
       sessions[j].revokedAt # NoTime /\ sessions[j].replacedByJti = NoJti
  /\ \E u \in UserIds : users[u].tokenVersion > 0
  /\ \E p \in Procs : Done(p, "logoutDevice", "OK")
====
